---- MODULE Spec2Model ----
(***************************************************************************)
(* Model of app.py: a Streamlit page that loads a Keras emotion classifier *)
(* with its tokenizer and label encoder, and serves a single-text          *)
(* prediction (tab1) and a bulk prediction over an uploaded table (tab2).  *)
(*                                                                         *)
(* Streamlit executes the whole script top to bottom once per user         *)
(* interaction, so one action of the model is one script run: lines        *)
(* 141-143 (artifact loading), then the tab1 handler, then the tab2        *)
(* handler.  An uncaught exception ends the run and is rendered by the     *)
(* Streamlit runtime in place of the rest of the page.                     *)
(***************************************************************************)
EXTENDS Integers, Sequences, FiniteSets, TLC

VARIABLES
    model,          \* the loaded Keras model (its weights)
    tokenizer,      \* the loaded tokenizer (its word_index)
    label_encoder,  \* the loaded label encoder (its classes_)
    modelLoads,     \* executions of tf.keras.models.load_model
    supportLoads,   \* executions of the body of load_support_files
    cache,          \* st.cache_data holds the result of load_support_files
    user_input,     \* content of the text area of tab1
    uploaded_file,  \* content of the file uploader of tab2
    page            \* what the last script run did and rendered

vars == <<model, tokenizer, label_encoder, modelLoads, supportLoads, cache,
          user_input, uploaded_file, page>>

--------------------------------------------------------------------------
(* Bounds of the model *)

MaxWords == 42      \* longest text typed into the text area, in words
MaxRows == 2        \* most rows of an uploaded table
MaxRuns == 3        \* script runs of the session

(* Program constants *)

maxlen == 40

--------------------------------------------------------------------------
(* The artifacts on disk.  Their content is not part of the repository;   *)
(* the model fixes one vocabulary, one label set and one weight file.      *)

Words == <<"saya", "sangat", "senang", "kecewa", "wkwk">>

\* tokenizer.pickle: word_index of the fitted Tokenizer ("wkwk" is unknown)
TokenizerFile ==
    [w \in {"saya", "sangat", "senang", "kecewa"} |->
        CASE w = "saya" -> 3
          [] w = "sangat" -> 1
          [] w = "senang" -> 4
          [] w = "kecewa" -> 2]

\* label_encoder.pickle: classes_ of the fitted LabelEncoder
LabelEncoderFile == <<"anger", "fear", "happy", "love", "sadness">>

LabelSet == {LabelEncoderFile[i] : i \in 1..Len(LabelEncoderFile)}

\* transformer_emotion.keras: one weight per output class
ModelFile == <<2, 3, 5, 7, 4>>

--------------------------------------------------------------------------
(* Pure steps of the inference pipeline *)

\* Tokenizer.texts_to_sequences for one text: words of the vocabulary are
\* replaced by their ids, unknown words are dropped.
text_to_ids(tok, text) ==
    LET known == SelectSeq(text, LAMBDA w : w \in DOMAIN tok)
    IN  [i \in 1..Len(known) |-> tok[known[i]]]

texts_to_sequences(tok, texts) ==
    [i \in 1..Len(texts) |-> text_to_ids(tok, texts[i])]

\* Mutants of pad_one
pad_one_no_truncate(s, n) ==
    IF Len(s) >= n THEN s ELSE [j \in 1..(n - Len(s)) |-> 0] \o s

pad_one_value(s, n) ==
    IF Len(s) >= n
    THEN SubSeq(s, Len(s) - n + 1, Len(s))
    ELSE [j \in 1..(n - Len(s)) |-> 1] \o s

pad_one_post(s, n) ==
    IF Len(s) >= n
    THEN SubSeq(s, 1, n)
    ELSE s \o [j \in 1..(n - Len(s)) |-> 0]

\* pad_sequences(..., maxlen=n) for one row, with the defaults
\* padding='pre', truncating='pre', value=0.
pad_one(s, n) ==
    IF Len(s) >= n
    THEN SubSeq(s, Len(s) - n + 1, Len(s))
    ELSE [j \in 1..(n - Len(s)) |-> 0] \o s

pad_sequences(sequences, n) ==
    [i \in 1..Len(sequences) |-> pad_one(sequences[i], n)]

RECURSIVE weighted_sum(_, _)
weighted_sum(p, j) ==
    IF j = 0 THEN 0 ELSE weighted_sum(p, j - 1) + j * p[j]

\* The forward pass on one padded row: a score per class, a deterministic
\* function of the weights and of every position of the row.
forward(m, p) ==
    [c \in 1..Len(m) |-> (m[c] * weighted_sum(p, Len(p)) + c * c) % 11]

\* model.predict on a batch of padded rows.  An empty batch raises
\* ValueError inside Keras (no batch output to concatenate).
model_predict(m, padded) ==
    IF Len(padded) = 0
    THEN [raised |-> "ValueError", scores |-> <<>>]
    ELSE [raised |-> "none",
          scores |-> [i \in 1..Len(padded) |-> forward(m, padded[i])]]

\* np.argmax along axis 1, for one row: the 0-based index of the first
\* largest score.
argmax(v) ==
    (CHOOSE i \in 1..Len(v) :
        /\ \A j \in 1..Len(v) : v[j] <= v[i]
        /\ \A j \in 1..(i - 1) : v[j] < v[i]) - 1

\* Mutant of inverse_transform: the class index is not decoded
inverse_transform_raw(le, indices) ==
    [raised |-> "none",
     labels |-> [i \in 1..Len(indices) |-> ToString(indices[i])]]

\* LabelEncoder.inverse_transform: ValueError on an index outside
\* 0..len(classes_)-1, else classes_[index].
inverse_transform(le, indices) ==
    IF \E i \in 1..Len(indices) : indices[i] \notin 0..(Len(le) - 1)
    THEN [raised |-> "ValueError", labels |-> <<>>]
    ELSE [raised |-> "none",
          labels |-> [i \in 1..Len(indices) |-> le[indices[i] + 1]]]

--------------------------------------------------------------------------
(* Texts, tables and files the user can supply *)

\* A text is its sequence of words; the empty sequence is the empty string.
\* Text(n) has n words: an unknown word first, then the known words in
\* turn, so it has n - 1 tokens and its neighbouring tokens differ.
Text(n) ==
    [i \in 1..n |->
        IF i = 1 THEN Words[Len(Words)]
                 ELSE Words[((i - 2) % (Len(Words) - 1)) + 1]]

\* The texts typed into the text area
Texts == {Text(n) : n \in 0..MaxWords}

\* Cells of the Review column of an uploaded file: an empty cell, a short
\* review, and a review of more than maxlen tokens.
ReviewCells == {Text(0), Text(3), Text(maxlen + 2)}

\* The table written in a file: Review cells as given, any other cell a
\* text naming its column and row.
FileTable(schema, reviews) ==
    [columns |-> schema,
     rows |-> [i \in 1..Len(reviews) |->
                 [c \in 1..Len(schema) |->
                    IF schema[c] = "Review"
                    THEN reviews[i]
                    ELSE <<schema[c], ToString(i)>>]]]

ReviewLists == UNION {[1..n -> ReviewCells] : n \in 0..MaxRows}

CsvMime == "text/csv"
XlsxMime == "application/vnd.openxmlformats-officedocument.spreadsheetml.sheet"

\* st.file_uploader(type=['csv', 'xlsx']) admits a file by the extension
\* of its name; the MIME type is what the browser reports for it (a .csv
\* is reported as application/vnd.ms-excel where Excel is installed).
\* Each kind of file comes with one layout of columns.
FileKinds ==
    { [ext |-> "csv", type |-> CsvMime, schema |-> <<"Review">>],
      [ext |-> "xlsx", type |-> XlsxMime, schema |-> <<"id", "Review">>],
      [ext |-> "csv", type |-> CsvMime, schema |-> <<"id", "text">>],
      [ext |-> "csv", type |-> "application/vnd.ms-excel",
       schema |-> <<"Review", "id">>] }

Files ==
    { [present |-> TRUE, ext |-> k.ext, type |-> k.type,
       table |-> FileTable(k.schema, r)] :
        k \in { k \in FileKinds : k.type \in {CsvMime, XlsxMime} },
        r \in ReviewLists }
    \cup
    { [present |-> TRUE, ext |-> k.ext, type |-> k.type,
       table |-> FileTable(k.schema, [i \in 1..n |-> Text(3)])] :
        k \in { k \in FileKinds : k.type \notin {CsvMime, XlsxMime} },
        n \in 0..MaxRows }

NoFile ==
    [present |-> FALSE, ext |-> "", type |-> "",
     table |-> [columns |-> <<>>, rows |-> <<>>]]

--------------------------------------------------------------------------
(* Data frames *)

\* pd.read_csv / pd.read_excel: an empty cell is read as NaN.
read_table(file) ==
    [columns |-> file.table.columns,
     rows |-> [i \in 1..Len(file.table.rows) |->
                 [c \in 1..Len(file.table.columns) |->
                    [nan |-> Len(file.table.rows[i][c]) = 0,
                     text |-> file.table.rows[i][c]]]]]

NoData == [columns |-> <<>>, rows |-> <<>>]

HasColumn(data, name) ==
    \E c \in 1..Len(data.columns) : data.columns[c] = name

\* data[name].tolist()
column(data, name) ==
    LET c == CHOOSE k \in 1..Len(data.columns) : data.columns[k] = name
    IN  [i \in 1..Len(data.rows) |-> data.rows[i][c]]

\* pd.concat([data, pd.DataFrame(labels, columns=[name])], axis=1)
concat_column(data, name, labels) ==
    [columns |-> Append(data.columns, name),
     rows |-> [i \in 1..Len(data.rows) |->
                 Append(data.rows[i], [nan |-> FALSE, text |-> <<labels[i]>>])]]

\* What a written cell holds: NaN is written as the empty cell.
written(cell) == IF cell.nan THEN <<>> ELSE cell.text

\* df.to_csv(): index=True by default, so the row index is written as a
\* first column with an empty header.
convert_df_to_csv(df) ==
    [header |-> <<"">> \o df.columns,
     rows |-> [i \in 1..Len(df.rows) |->
                 <<<<ToString(i - 1)>>>> \o
                 [c \in 1..Len(df.columns) |-> written(df.rows[i][c])]]]

\* df.to_excel(writer, index=False)
convert_df_to_excel(df) ==
    [header |-> df.columns,
     rows |-> [i \in 1..Len(df.rows) |->
                 [c \in 1..Len(df.columns) |-> written(df.rows[i][c])]]]

NoExport == [header |-> <<>>, rows |-> <<>>]

UnsupportedMessage ==
    "This file format is not supported! Please upload a CSV or Excel file."

\* read_data: dispatch on the extension of the name, st.error otherwise.
\* No line of the script calls it.
read_data(file) ==
    IF file.ext = "csv" \/ file.ext = "xlsx"
    THEN [error |-> "none", data |-> read_table(file)]
    ELSE [error |-> UnsupportedMessage, data |-> NoData]

--------------------------------------------------------------------------
(* The two prediction functions.  A result records the exception raised   *)
(* ("none" when the function returns), the value returned, the number of   *)
(* model.predict calls made and the rows handed to model.predict, each     *)
(* with the token sequence it was padded from.                             *)

Fed(sequences, padded) ==
    [i \in 1..Len(sequences) |->
        [tokens |-> sequences[i], padded |-> padded[i]]]

predict_emotion(text, m, tok, le) ==
    LET sequence == texts_to_sequences(tok, <<text>>)
        padded_sequence == pad_sequences(sequence, maxlen)
        prediction == model_predict(m, padded_sequence)
        label_index == argmax(prediction.scores[1])
        label == inverse_transform(le, <<label_index>>)
    IN  IF label.raised # "none"
        THEN [raised |-> label.raised, label |-> "", calls |-> 1,
              fed |-> Fed(sequence, padded_sequence)]
        ELSE [raised |-> "none", label |-> label.labels[1], calls |-> 1,
              fed |-> Fed(sequence, padded_sequence)]

NotCalled == [raised |-> "none", label |-> "", calls |-> 0, fed |-> <<>>]

BulkRaised(e, n, fed) ==
    [raised |-> e, labels |-> <<>>, calls |-> n, fed |-> fed]

\* Mutant of predict_bulk: a table without a Review column is predicted
\* from its first column
predict_bulk_first_column(m, tok, le, data) ==
    LET texts == [i \in 1..Len(data.rows) |-> data.rows[i][1].text]
        sequences == texts_to_sequences(tok, texts)
        padded_sequences == pad_sequences(sequences, maxlen)
        fed == Fed(sequences, padded_sequences)
        predictions == model_predict(m, padded_sequences)
    IN  IF predictions.raised # "none"
        THEN BulkRaised(predictions.raised, 1, fed)
        ELSE [raised |-> "none",
              labels |-> inverse_transform(le,
                            [i \in 1..Len(predictions.scores) |->
                                argmax(predictions.scores[i])]).labels,
              calls |-> 1, fed |-> fed]

predict_bulk(m, tok, le, data) ==
    IF ~HasColumn(data, "Review")
    THEN BulkRaised("KeyError", 0, <<>>)            \* data['Review']
    ELSE
    LET cells == column(data, "Review")
    IN  IF \E i \in 1..Len(cells) : cells[i].nan
        THEN BulkRaised("AttributeError", 0, <<>>)  \* NaN has no lower()
        ELSE
        LET texts == [i \in 1..Len(cells) |-> cells[i].text]
            sequences == texts_to_sequences(tok, texts)
            padded_sequences == pad_sequences(sequences, maxlen)
            fed == Fed(sequences, padded_sequences)
            predictions == model_predict(m, padded_sequences)
        IN  IF predictions.raised # "none"
            THEN BulkRaised(predictions.raised, 1, fed)
            ELSE
            LET prediction_indices ==
                    [i \in 1..Len(predictions.scores) |->
                        argmax(predictions.scores[i])]
                prediction_labels == inverse_transform(le, prediction_indices)
            IN  IF prediction_labels.raised # "none"
                THEN BulkRaised(prediction_labels.raised, 1, fed)
                ELSE [raised |-> "none", labels |-> prediction_labels.labels,
                      calls |-> 1, fed |-> fed]

BulkNotCalled == BulkRaised("none", 0, <<>>)

--------------------------------------------------------------------------
(* The two handlers of the page *)

Tab1Idle ==
    [written |-> "none", label |-> "", exception |-> "none",
     entered |-> FALSE, emotion |-> NotCalled]

\* Mutant of tab1: the text is not tested before predicting
tab1_unguarded(text, button, m, tok, le) ==
    IF ~button
    THEN Tab1Idle
    ELSE LET r == predict_emotion(text, m, tok, le)
         IN  [written |-> "label", label |-> r.label, exception |-> "none",
              entered |-> TRUE, emotion |-> r]

\* Lines 151-157.  A Python string is true exactly when it is not empty.
tab1(text, button, m, tok, le) ==
    IF ~button
    THEN Tab1Idle
    ELSE IF Len(text) > 0
         THEN LET r == predict_emotion(text, m, tok, le)
              IN  IF r.raised # "none"
                  THEN [written |-> "none", label |-> "",
                        exception |-> r.raised, entered |-> TRUE,
                        emotion |-> r]
                  ELSE [written |-> "label", label |-> r.label,
                        exception |-> "none", entered |-> TRUE,
                        emotion |-> r]
         ELSE [written |-> "prompt", label |-> "", exception |-> "none",
               entered |-> FALSE, emotion |-> NotCalled]

Tab2Raised(e, entered, bulk) ==
    [exception |-> e, error |-> "", entered |-> entered, bulk |-> bulk,
     shown |-> FALSE, results |-> NoData,
     csv |-> NoExport, xlsx |-> NoExport]

Tab2Idle == Tab2Raised("none", FALSE, BulkNotCalled)

\* Lines 183-216.  `exception` is the uncaught exception that ended the
\* run, `error` the text given to st.error (no line of the handler calls
\* it), `entered` whether predict_bulk was called.  With a MIME type that is neither of the two tested,
\* no branch binds `data`, and evaluating the argument `data` of the call
\* at line 190 raises NameError.
tab2(file, m, tok, le) ==
    IF ~file.present
    THEN Tab2Idle
    ELSE IF file.type # CsvMime /\ file.type # XlsxMime
         THEN Tab2Raised("NameError", FALSE, BulkNotCalled)
         ELSE
         LET data == read_table(file)
             predictions == predict_bulk(m, tok, le, data)
         IN  IF predictions.raised # "none"
             THEN Tab2Raised(predictions.raised, TRUE, predictions)
             ELSE
             LET results ==
                    concat_column(data, "Emotion Prediction", predictions.labels)
             IN  [exception |-> "none", error |-> "", entered |-> TRUE,
                  bulk |-> predictions,
                  shown |-> TRUE, results |-> results,
                  csv |-> convert_df_to_csv(results),
                  xlsx |-> convert_df_to_excel(results)]

\* One execution of the script body from line 146 on: tab2 is reached
\* only if tab1 raised nothing.
script(text, file, button, m, tok, le) ==
    LET t1 == tab1(text, button, m, tok, le)
    IN  [button |-> button,
         text |-> text,
         file |-> file,
         tab1 |-> t1,
         tab2 |-> IF t1.exception # "none"
                  THEN Tab2Idle
                  ELSE tab2(file, m, tok, le)]

--------------------------------------------------------------------------
(* The state machine: one action is one script run *)

Blank == script(<<>>, NoFile, FALSE, <<>>, <<>>, <<>>)

Init ==
    /\ model = <<>>
    /\ tokenizer = <<>>
    /\ label_encoder = <<>>
    /\ modelLoads = 0
    /\ supportLoads = 0
    /\ cache = FALSE
    /\ user_input = <<>>
    /\ uploaded_file = NoFile
    /\ page = Blank

\* Line 142: load_model is not cached; every run deserializes the model.
load_model ==
    /\ model' = ModelFile
    /\ modelLoads' = modelLoads + 1

\* Line 143: load_support_files is wrapped by st.cache_data; its body runs
\* on a cache miss only, later runs get the cached pair.
load_support_files ==
    /\ tokenizer' = TokenizerFile
    /\ label_encoder' = LabelEncoderFile
    /\ cache' = TRUE
    /\ supportLoads' = IF cache THEN supportLoads ELSE supportLoads + 1

\* A whole script run with the widget values of this run.
Run(text, file, button) ==
    /\ modelLoads < MaxRuns
    /\ load_model
    /\ load_support_files
    /\ user_input' = text
    /\ uploaded_file' = file
    /\ page' = script(text, file, button, model', tokenizer', label_encoder')

\* The browser opens the page: the first run, with empty widgets.
OpenPage ==
    /\ modelLoads = 0
    /\ Run(<<>>, NoFile, FALSE)

\* The user changes the text area.
EditText ==
    /\ modelLoads > 0
    /\ \E t \in Texts :
        /\ t # user_input
        /\ Run(t, uploaded_file, FALSE)

\* The user presses 'Prediksi'.
PressPredict ==
    /\ modelLoads > 0
    /\ Run(user_input, uploaded_file, TRUE)

\* The user uploads a file.
UploadFile ==
    /\ modelLoads > 0
    /\ \E f \in Files :
        /\ f # uploaded_file
        /\ Run(user_input, f, FALSE)

\* The user removes the uploaded file.
RemoveFile ==
    /\ modelLoads > 0
    /\ uploaded_file.present
    /\ Run(user_input, NoFile, FALSE)

Next == OpenPage \/ EditText \/ PressPredict \/ UploadFile \/ RemoveFile

Spec == Init /\ [][Next]_vars

--------------------------------------------------------------------------
(* Properties *)

\* Every row handed to model.predict in the last run, by either function
FedRows ==
    {page.tab1.emotion.fed[i] : i \in 1..Len(page.tab1.emotion.fed)}
    \cup {page.tab2.bulk.fed[i] : i \in 1..Len(page.tab2.bulk.fed)}

BulkRows == {page.tab2.bulk.fed[i] : i \in 1..Len(page.tab2.bulk.fed)}

SupportedType(file) == file.type = CsvMime \/ file.type = XlsxMime

\* C1: a press of the button with a non-empty text shows a label of the
\* label set, and every label predict_bulk returns, and every cell of the
\* appended column, is of the label set.
LabelsInLabelSet ==
    /\ (page.button /\ Len(page.text) > 0) =>
          /\ page.tab1.written = "label"
          /\ page.tab1.label \in LabelSet
    /\ page.tab1.written = "label" => page.tab1.label \in LabelSet
    /\ \A i \in 1..Len(page.tab2.bulk.labels) :
          page.tab2.bulk.labels[i] \in LabelSet
    /\ page.tab2.shown =>
          \A i \in 1..Len(page.tab2.results.rows) :
             LET row == page.tab2.results.rows[i]
             IN  /\ Len(row[Len(row)].text) = 1
                 /\ row[Len(row)].text[1] \in LabelSet

LabelsShown ==
    /\ page.tab2.shown
    /\ Len(page.tab2.bulk.labels) > 1
    /\ page.tab2.bulk.labels[1] # page.tab2.bulk.labels[2]

\* C2: predict_bulk, called on a table whose Review cells are all texts,
\* returns one label per row, the i-th being the label predict_emotion
\* gives to the text of row i.
BulkLengthAndOrder ==
    LET data == read_table(page.file)
    IN  (/\ page.tab2.entered
         /\ HasColumn(data, "Review")
         /\ \A i \in 1..Len(data.rows) : ~column(data, "Review")[i].nan)
        => /\ page.tab2.bulk.raised = "none"
           /\ Len(page.tab2.bulk.labels) = Len(data.rows)
           /\ \A i \in 1..Len(data.rows) :
                 page.tab2.bulk.labels[i] =
                    predict_emotion(column(data, "Review")[i].text,
                                    model, tokenizer, label_encoder).label

\* C3: every row handed to model.predict has length maxlen.
ModelInputLength ==
    \A r \in FedRows : Len(r.padded) = maxlen

ModelInputLengthCases ==
    \E i \in 1..Len(page.tab1.emotion.fed) :
       Len(page.tab1.emotion.fed[i].tokens) > maxlen

\* C4: a token sequence shorter than maxlen is padded to length maxlen,
\* its ids kept contiguous and in order, every other element being 0.
PaddingLaw ==
    \A r \in FedRows :
       Len(r.tokens) < maxlen =>
          /\ Len(r.padded) = maxlen
          /\ \E k \in 0..(maxlen - Len(r.tokens)) :
                /\ \A i \in 1..Len(r.tokens) : r.padded[k + i] = r.tokens[i]
                /\ \A j \in 1..maxlen :
                      (j <= k \/ j > k + Len(r.tokens)) => r.padded[j] = 0

PaddedShortText ==
    \E i \in 1..Len(page.tab1.emotion.fed) :
       LET t == page.tab1.emotion.fed[i].tokens
       IN  /\ Len(t) > 1
           /\ Len(t) < maxlen
           /\ t[1] # t[2]

\* C5: a press of the button with the empty text does not enter
\* predict_emotion, makes no model.predict call from tab1, writes the
\* prompt and shows no label.
EmptyTextRejected ==
    (page.button /\ Len(page.text) = 0) =>
       /\ ~page.tab1.entered
       /\ page.tab1.emotion.calls = 0
       /\ page.tab1.emotion.fed = <<>>
       /\ page.tab1.written = "prompt"
       /\ page.tab1.label = ""

EmptyTextPressed ==
    /\ page.button
    /\ Len(page.text) = 0
    /\ page.tab1.written = "prompt"

\* C6: a table without a Review column, in a file of a tested type, ends
\* the run with KeyError raised by predict_bulk before any model.predict
\* call; no result table is shown and no download is offered.
MissingReviewColumn ==
    (/\ page.file.present
     /\ SupportedType(page.file)
     /\ ~HasColumn(read_table(page.file), "Review"))
    => /\ page.tab2.entered
       /\ page.tab2.exception = "KeyError"
       /\ page.tab2.bulk.calls = 0
       /\ ~page.tab2.shown
       /\ page.tab2.results = NoData
       /\ page.tab2.csv = NoExport
       /\ page.tab2.xlsx = NoExport

MissingReviewUploaded ==
    /\ page.file.present
    /\ SupportedType(page.file)
    /\ ~HasColumn(read_table(page.file), "Review")
    /\ Len(page.file.table.rows) > 0
    /\ page.tab2.exception = "KeyError"

\* C7: a file whose type is neither CSV nor xlsx gets the unsupported
\* format message, predict_bulk is not called and nothing is output.
UnsupportedFormatReported ==
    (page.file.present /\ ~SupportedType(page.file)) =>
       /\ page.tab2.error = UnsupportedMessage
       /\ page.tab2.exception = "none"
       /\ ~page.tab2.entered
       /\ ~page.tab2.shown

\* C8: whenever a result table is produced, the table displayed, the CSV
\* export and the spreadsheet export all have exactly the input columns
\* followed by 'Emotion Prediction', and the input rows in order.
OutputTableLayout ==
    page.tab2.shown =>
       LET data == read_table(page.file)
           cols == Append(data.columns, "Emotion Prediction")
           n == Len(data.columns)
       IN  /\ page.tab2.results.columns = cols
           /\ Len(page.tab2.results.rows) = Len(data.rows)
           /\ \A i \in 1..Len(data.rows) :
                 SubSeq(page.tab2.results.rows[i], 1, n) = data.rows[i]
           /\ page.tab2.xlsx.header = cols
           /\ Len(page.tab2.xlsx.rows) = Len(data.rows)
           /\ \A i \in 1..Len(data.rows) :
                 SubSeq(page.tab2.xlsx.rows[i], 1, n) = page.file.table.rows[i]
           /\ page.tab2.csv.header = cols
           /\ Len(page.tab2.csv.rows) = Len(data.rows)
           /\ \A i \in 1..Len(data.rows) :
                 SubSeq(page.tab2.csv.rows[i], 1, n) = page.file.table.rows[i]

\* C9: the model, the tokenizer and the label encoder are each loaded at
\* most once over the runs of the process.
LoadedOnce ==
    /\ modelLoads <= 1
    /\ supportLoads <= 1

\* C10: padding and truncation act on the front: a row of n < maxlen ids
\* is maxlen - n zeros then the ids, a row of n > maxlen ids is its last
\* maxlen ids.
PrePaddingPreTruncation ==
    \A r \in FedRows :
       LET n == Len(r.tokens)
       IN  /\ Len(r.padded) = maxlen
           /\ \A j \in 1..maxlen :
                 r.padded[j] =
                    IF n < maxlen
                    THEN (IF j <= maxlen - n THEN 0 ELSE r.tokens[j - (maxlen - n)])
                    ELSE r.tokens[n - maxlen + j]

PadAndTruncateInBulk ==
    /\ \E r \in BulkRows : Len(r.tokens) > maxlen /\ r.tokens[1] # r.tokens[2]
    /\ \E r \in BulkRows : Len(r.tokens) > 0 /\ Len(r.tokens) < maxlen

====
